---------------------------- MODULE Spec2Model ----------------------------
(***************************************************************************)
(* A model of the two scripts of the repository.                           *)
(*                                                                         *)
(*   watcher.py     one run of main() per step: fetch the publications     *)
(*                  page, diff its PDF links against the seen-links file,  *)
(*                  download and email the new ones, save the file.        *)
(*   fetch_pdfs.py  one run of the script, one step per operation: clean   *)
(*                  up, read PDF_URLS, and per URL render / scan /         *)
(*                  download, then POST the summary and exit.              *)
(*                                                                         *)
(* Text (links, file contents, PDF_URLS) is a sequence of atoms; an atom   *)
(* is a piece of text that the code never cuts: "\n", " ", ",", ".pdf",    *)
(* "PRID=1&" and so on.                                                    *)
(***************************************************************************)
EXTENDS Integers, Sequences, FiniteSets, TLC

VARIABLES
    \* ---- watcher.py ----
    fileExists,     \* os.path.exists(LINK_RECORD_FILE)
    fileContent,    \* the text of pdf_links.txt
    runs,           \* completed runs of main()
    last,           \* what the last run of main() did
    dlCount,        \* download_pdf calls per link, over all runs
    mailCount       \* send_email_with_attachment calls per link, over all runs

wvars == <<fileExists, fileContent, runs, last, dlCount, mailCount>>

VARIABLES
    \* ---- fetch_pdfs.py ----
    pc,                 \* where the script is
    urls_str,           \* os.environ PDF_URLS
    webhook_url,        \* os.environ N8N_WEBHOOK
    fs,                 \* the files of the working directory: name -> the
                        \* <<URL, link>> that wrote it, <<0, 0>> an earlier run
    urls,               \* line 286
    idx,                \* process_all_urls: the URL in hand (1-based)
    stage,              \* process_single_url: where it is for that URL
    pdf_links,          \* line 182
    k,                  \* line 185: the link in hand (1-based)
    downloaded_files,   \* line 183
    results,            \* line 216
    log,                \* the network and browser operations so far
    posts,              \* requests.post calls
    payload,            \* the summary posted
    exitCode            \* exit(...)

fvars == <<pc, urls_str, webhook_url, fs, urls, idx, stage, pdf_links, k,
           downloaded_files, results, log, posts, payload, exitCode>>

vars == <<wvars, fvars>>

(***************************************************************************)
(* Bounds                                                                  *)
(***************************************************************************)
MaxRuns == 3
MaxUrlsLen == 3

(***************************************************************************)
(* Text helpers                                                            *)
(***************************************************************************)
NL == "\n"

\* str.strip() removes these at both ends
Whitespace == {" ", NL}

EndsWith(s, suffix) ==
    /\ Len(s) >= Len(suffix)
    /\ SubSeq(s, Len(s) - Len(suffix) + 1, Len(s)) = suffix

RECURSIVE LStrip(_)
LStrip(s) ==
    IF s # <<>> /\ Head(s) \in Whitespace THEN LStrip(Tail(s)) ELSE s

RECURSIVE RStrip(_)
RStrip(s) ==
    IF s # <<>> /\ s[Len(s)] \in Whitespace
    THEN RStrip(SubSeq(s, 1, Len(s) - 1)) ELSE s

Strip(s) == LStrip(RStrip(s))

\* the position of the first sep in s, 0 when there is none
FirstIndex(s, sep) ==
    IF \E i \in 1..Len(s) : s[i] = sep
    THEN CHOOSE i \in 1..Len(s) : s[i] = sep /\ \A j \in 1..(i - 1) : s[j] # sep
    ELSE 0

\* the order of the atoms as Python compares the strings they stand for
\* (no atom is a prefix of another, so comparing atom by atom is comparing
\* the strings)
Rank(a) ==
    CASE a = NL -> 0
      [] a = " " -> 1
      [] a = ".pdf" -> 2
      [] a = ".txt" -> 3
      [] a = "/a" -> 4
      [] a = "/b" -> 5
      [] a = "/c" -> 6
      [] a = "b" -> 7
      [] OTHER -> 8

RECURSIVE StrLess(_, _)
StrLess(s, t) ==
    IF t = <<>> THEN FALSE
    ELSE IF s = <<>> THEN TRUE
    ELSE IF Head(s) # Head(t) THEN Rank(Head(s)) < Rank(Head(t))
    ELSE StrLess(Tail(s), Tail(t))

RECURSIVE sorted(_)
sorted(S) ==
    IF S = {} THEN <<>>
    ELSE LET m == CHOOSE x \in S : \A y \in S \ {x} : StrLess(x, y)
         IN  <<m>> \o sorted(S \ {m})

(***************************************************************************)
(* fetch_pdfs.py                                                           *)
(***************************************************************************)
\* the atoms PDF_URLS is made of: the separator, a blank, the text of a page
\* address up to its query, and the query part "PRID=1&"
COMMA == ","
PAGE == "https://pib.gov.in/PressReleasePage.aspx?"
PRID1 == "PRID=1&"
UrlAtoms == {COMMA, " ", PAGE, PRID1}

RECURSIVE SeqsUpTo(_, _)
SeqsUpTo(S, n) ==
    IF n = 0 THEN {<<>>}
    ELSE LET shorter == SeqsUpTo(S, n - 1)
         IN  shorter \cup {Append(q, a) : q \in {r \in shorter : Len(r) = n - 1}, a \in S}

\* str.split(sep): the pieces between the separators, empty pieces kept
RECURSIVE Split(_, _)
Split(s, sep) ==
    LET i == FirstIndex(s, sep)
    IN  IF i = 0 THEN <<s>>
        ELSE <<SubSeq(s, 1, i - 1)>> \o Split(SubSeq(s, i + 1, Len(s)), sep)

RECURSIVE SelectNonBlank(_)
SelectNonBlank(pieces) ==
    IF pieces = <<>> THEN <<>>
    ELSE IF Strip(Head(pieces)) # <<>>
         THEN <<Strip(Head(pieces))>> \o SelectNonBlank(Tail(pieces))
         ELSE SelectNonBlank(Tail(pieces))

\* line 286: [url.strip() for url in urls_str.split(',') if url.strip()]
ParseUrls(s) == SelectNonBlank(Split(s, COMMA))

\* lines 167-168: re.search(r'PRID=(\d+)', url), else "unknown"
PridOf(url) ==
    IF \E i \in 1..Len(url) : url[i] = PRID1 THEN "1" ELSE "unknown"

\* lines 41-42: the same search in find_pdf_links, else None
HasPrid(url) == \E i \in 1..Len(url) : url[i] = PRID1

\* an address requests and the browser can open at all: it has a scheme and
\* a host (anything else raises before a connection is made)
Fetchable(url) == url # <<>> /\ Head(url) = PAGE

IndexText(i) == <<"0", "1", "2", "3", "4", "5">>[i + 1]

\* line 74 and lines 186-187: f"pib_{prid}{suffix}.pdf"
PdfName(prid, suffix) == <<"pib_", prid>> \o suffix \o <<".pdf">>

\* the href values an anchor of a press-release page may carry
SPECIFIC == "https://static.pib.gov.in/WriteReadData/specificdocs/"
PibHrefs ==
    { <<SPECIFIC, "doc", ".pdf">>,     \* an attachment, absolute
      <<"/pdf/", "r", ".pdf">>,        \* relevant, relative
      <<"/files/", "r", ".pdf">> }     \* a PDF that is not relevant

\* lines 19-31
is_valid_pdf_link(href) ==
    /\ href # <<>>
    /\ EndsWith(href, <<".pdf">>)
    /\ Head(href) \notin {"javascript:", "mailto:"}
    /\ \E i \in 1..Len(href) : href[i] \in {SPECIFIC, "GeneratePdf.aspx", "/pdf/", "/document/"}

\* urllib.parse.urljoin(url, href) for a fetchable url
urljoin(url, href) ==
    IF Head(href) = SPECIFIC THEN href ELSE <<"https://pib.gov.in">> \o href

\* line 46
GenerateLink(prid) == <<"https://pib.gov.in/Utilities/", "GeneratePdf.aspx", "?ID=", prid>>

\* lines 33-70, the set built before list(pdf_links); the anchors of the main
\* content area (lines 60-65) are among the anchors of the page (lines
\* 50-57) and urljoin leaves an absolute href as it is, so they add nothing
PdfLinkSet(url, page) ==
    (IF HasPrid(url) THEN {GenerateLink(PridOf(url))} ELSE {})
    \cup {urljoin(url, h) : h \in {a \in page : is_valid_pdf_link(a)}}

\* a list that holds one of the links twice
ListWithRepeat(S) ==
    {q \in [1..(Cardinality(S) + 1) -> S] : \A x \in S : \E i \in DOMAIN q : q[i] = x}

\* the orders list(pdf_links) may come out in: set iteration order is not
\* specified
Orderings(S) ==
    {q \in [1..Cardinality(S) -> S] : \A x \in S : \E i \in DOMAIN q : q[i] = x}

\* r.get('files', [])
Files(r) == IF "files" \in DOMAIN r THEN r.files ELSE <<>>

OldFiles == {<<"pib_", "1", ".pdf">>, <<"notes", ".txt">>}

\* the script not started
FStart ==
    /\ urls = <<>>
    /\ idx = 1
    /\ stage = "idle"
    /\ pdf_links = <<>>
    /\ k = 1
    /\ downloaded_files = <<>>
    /\ results = <<>>
    /\ log = <<>>
    /\ posts = 0
    /\ payload = <<>>
    /\ exitCode = -1

FInit ==
    /\ pc = "cleanup"
    /\ urls_str \in SeqsUpTo(UrlAtoms, MaxUrlsLen)
    /\ webhook_url \in {<<>>, <<"https://n8n.maneshwar.com/webhook-test/receive-pdfs">>}
    /\ fs \in {[n \in {} |-> <<0, 0>>], [n \in OldFiles |-> <<0, 0>>]}
    /\ FStart

\* fetch_pdfs is not run
FOff ==
    /\ pc = "off"
    /\ urls_str = <<>>
    /\ webhook_url = <<>>
    /\ fs = [n \in {} |-> <<0, 0>>]
    /\ FStart


Write(files, name, writer) ==
    [n \in DOMAIN files \cup {name} |-> IF n = name THEN writer ELSE files[n]]

\* lines 264-272: remove the pib_*.pdf files; kept are those whose
\* os.remove raised
cleanup_pdfs ==
    /\ pc = "cleanup"
    /\ \E kept \in SUBSET {n \in DOMAIN fs : Head(n) = "pib_" /\ EndsWith(n, <<".pdf">>)} :
         fs' = [n \in {m \in DOMAIN fs : ~(Head(m) = "pib_" /\ EndsWith(m, <<".pdf">>))} \cup kept
                  |-> fs[n]]
    /\ pc' = "env"
    /\ UNCHANGED wvars
    /\ UNCHANGED <<urls_str, webhook_url, urls, idx, stage, pdf_links, k,
                   downloaded_files, results, log, posts, payload, exitCode>>

\* lines 279-287
ReadEnv ==
    /\ pc = "env"
    /\ IF urls_str = <<>>
       THEN /\ pc' = "exited"
            /\ exitCode' = 1
            /\ urls' = urls
       ELSE /\ pc' = "loop"
            /\ urls' = ParseUrls(urls_str)
            /\ exitCode' = exitCode
    /\ UNCHANGED wvars
    /\ UNCHANGED <<urls_str, webhook_url, fs, idx, stage, pdf_links, k,
                   downloaded_files, results, log, posts, payload>>

Event(op, target, ok) == [op |-> op, i |-> idx, target |-> target, ok |-> ok]

\* a convert_to_pdf whose record never says "success"
convert_to_pdf_NoStatus(url, prid, ok) ==
    [status |-> "failed", error |-> "exception", url |-> url]

\* lines 72-125: the record convert_to_pdf returns
convert_to_pdf(url, prid, ok) ==
    IF ok
    THEN [status |-> "success", filename |-> PdfName(prid, <<>>), url |-> url,
          method |-> "browser_generated"]
    ELSE [status |-> "failed", error |-> "exception", url |-> url]

\* lines 127-157: the record download_pdf returns
download_pdf(pdf_url, filename, ok) ==
    IF ok
    THEN [status |-> "success", filename |-> filename, url |-> pdf_url,
          method |-> "direct_download"]
    ELSE [status |-> "failed", error |-> "exception", url |-> pdf_url]

\* lines 219-223 and 159-178: the next URL of process_all_urls, up to the
\* return of convert_to_pdf (the early return of lines 162-163 is never
\* taken: line 286 has dropped the blank entries)
ConvertStep ==
    /\ pc = "loop" /\ stage = "idle" /\ idx <= Len(urls)
    /\ LET url == Strip(urls[idx])
           prid == PridOf(url)
       IN  \E ok \in {b \in BOOLEAN : b => Fetchable(url)} :
             LET pdf_result == convert_to_pdf(url, prid, ok)
             IN  /\ log' = Append(log, Event("render", url, ok))
                 /\ IF pdf_result.status = "success"
                    THEN /\ fs' = Write(fs, pdf_result.filename, <<idx, 0>>)
                         /\ results' = Append(results,
                              [url |-> url, prid |-> prid, status |-> "success",
                               files |-> <<pdf_result>>])
                         /\ idx' = idx + 1
                         /\ stage' = "idle"
                    ELSE /\ stage' = "fallback"
                         /\ UNCHANGED <<fs, results, idx>>
    /\ UNCHANGED wvars
    /\ UNCHANGED <<pc, urls_str, webhook_url, urls, pdf_links, k,
                   downloaded_files, posts, payload, exitCode>>

\* lines 181-183: find_pdf_links, whose own handler turns a failed fetch
\* into []
ScanStep ==
    /\ pc = "loop" /\ stage = "fallback"
    /\ LET url == Strip(urls[idx])
       IN  \E ok \in {b \in BOOLEAN : b => Fetchable(url)}, page \in SUBSET PibHrefs :
             \E found \in (IF ok THEN Orderings(PdfLinkSet(url, page)) ELSE {<<>>}) :
                /\ pdf_links' = found
                /\ log' = Append(log, Event("scan", url, ok))
    /\ downloaded_files' = <<>>
    /\ k' = 1
    /\ stage' = "download"
    /\ UNCHANGED wvars
    /\ UNCHANGED <<pc, urls_str, webhook_url, fs, urls, idx, results, posts,
                   payload, exitCode>>

\* lines 206-212: an exception raised in the body of the try outside the
\* helpers (each helper catches its own): the print of line 181 failing,
\* an OSError of a standard output that cannot take the text just then
RaiseStep ==
    /\ pc = "loop" /\ stage = "fallback"
    /\ results' = Append(results,
          [url |-> Strip(urls[idx]), status |-> "error", error |-> "exception"])
    /\ idx' = idx + 1
    /\ stage' = "idle"
    /\ UNCHANGED wvars
    /\ UNCHANGED <<pc, urls_str, webhook_url, fs, urls, pdf_links, k,
                   downloaded_files, log, posts, payload, exitCode>>

\* lines 185-190: one turn of the loop over pdf_links
DownloadStep ==
    /\ pc = "loop" /\ stage = "download" /\ k <= Len(pdf_links)
    /\ LET prid == PridOf(Strip(urls[idx]))
           suffix == IF Len(pdf_links) > 1 THEN <<"_", IndexText(k - 1)>> ELSE <<>>
           filename == PdfName(prid, suffix)
       IN  \E ok \in BOOLEAN :
             LET result == download_pdf(pdf_links[k], filename, ok)
             IN  /\ log' = Append(log, Event("download", pdf_links[k], ok))
                 /\ IF result.status = "success"
                    THEN /\ fs' = Write(fs, filename, <<idx, k>>)
                         /\ downloaded_files' = Append(downloaded_files, result)
                    ELSE UNCHANGED <<fs, downloaded_files>>
    /\ k' = k + 1
    /\ UNCHANGED wvars
    /\ UNCHANGED <<pc, urls_str, webhook_url, urls, idx, stage, pdf_links,
                   results, posts, payload, exitCode>>

\* a result that reports success whatever was downloaded
FallbackResult_NoCheck(url, prid, files) ==
    [url |-> url, prid |-> prid, status |-> "success", files |-> files]

\* lines 192-205: the record returned after the loop
FallbackResult(url, prid, files) ==
    IF files # <<>>
    THEN [url |-> url, prid |-> prid, status |-> "success", files |-> files]
    ELSE [url |-> url, prid |-> prid, status |-> "failed",
          error |-> "No PDF generated or found"]

FinishStep ==
    /\ pc = "loop" /\ stage = "download" /\ k > Len(pdf_links)
    /\ results' = Append(results,
          FallbackResult(Strip(urls[idx]), PridOf(Strip(urls[idx])), downloaded_files))
    /\ idx' = idx + 1
    /\ stage' = "idle"
    /\ UNCHANGED wvars
    /\ UNCHANGED <<pc, urls_str, webhook_url, fs, urls, pdf_links, k,
                   downloaded_files, log, posts, payload, exitCode>>

RECURSIVE SumLen(_)
SumLen(rs) == IF rs = <<>> THEN 0 ELSE Len(Files(Head(rs))) + SumLen(Tail(rs))

CountSuccess(rs) == Cardinality({j \in DOMAIN rs : rs[j].status = "success"})

\* a summary that counts a result with files as one PDF
Payload_OnePerResult(rs) ==
    [processed_urls |-> Len(rs),
     successful |-> CountSuccess(rs),
     failed |-> Len(rs) - CountSuccess(rs),
     total_pdfs |-> Cardinality({j \in DOMAIN rs : Files(rs[j]) # <<>>}),
     details |-> rs]

\* lines 234-248: the summary (its timestamp, environment and success_rate
\* text are left out)
Payload(rs) ==
    [processed_urls |-> Len(rs),
     successful |-> CountSuccess(rs),
     failed |-> Len(rs) - CountSuccess(rs),
     total_pdfs |-> SumLen(rs),
     details |-> rs]

\* lines 290-294 and 227-262: the loop is over; send_to_n8n
send_to_n8n ==
    /\ pc = "loop" /\ stage = "idle" /\ idx > Len(urls)
    /\ IF webhook_url = <<>>
       THEN UNCHANGED <<posts, payload, log>>
       ELSE /\ posts' = posts + 1
            /\ payload' = Payload(results)
            /\ \E ok \in BOOLEAN : log' = Append(log, Event("post", webhook_url, ok))
    /\ pc' = "sent"
    /\ UNCHANGED wvars
    /\ UNCHANGED <<urls_str, webhook_url, fs, urls, idx, stage, pdf_links, k,
                   downloaded_files, results, exitCode>>

\* an exit code that asks for more than half
ExitCode_Strict(rs) ==
    IF rs = <<>> THEN 1
    ELSE IF 2 * CountSuccess(rs) > Len(rs) THEN 0 ELSE 1

\* lines 297-301
ExitCode(rs) ==
    IF rs = <<>> THEN 1
    ELSE IF 2 * CountSuccess(rs) >= Len(rs) THEN 0 ELSE 1

Exit ==
    /\ pc = "sent"
    /\ exitCode' = ExitCode(results)
    /\ pc' = "exited"
    /\ UNCHANGED wvars
    /\ UNCHANGED <<urls_str, webhook_url, fs, urls, idx, stage, pdf_links, k,
                   downloaded_files, results, log, posts, payload>>

FNext ==
    \/ cleanup_pdfs
    \/ ReadEnv
    \/ ConvertStep
    \/ ScanStep
    \/ RaiseStep
    \/ DownloadStep
    \/ FinishStep
    \/ send_to_n8n
    \/ Exit

(***************************************************************************)
(* watcher.py                                                              *)
(***************************************************************************)
BASE_URL == <<"https://mospi.gov.in">>

\* the href values an anchor of the page may carry: two plain PDFs, a PDF
\* whose href holds a line break, and a link that is no PDF
Hrefs ==
    { <<"/a", ".pdf">>, <<"/b", ".pdf">>, <<"/c", NL, "b", ".pdf">>,
      <<"/c", ".txt">> }

\* the lines of a text file as iterating the file yields them
RECURSIVE FileLines(_)
FileLines(c) ==
    IF c = <<>> THEN {}
    ELSE LET i == FirstIndex(c, NL)
         IN  IF i = 0 THEN {c}
             ELSE {SubSeq(c, 1, i)} \cup FileLines(SubSeq(c, i + 1, Len(c)))

load_sent_links ==
    IF ~fileExists THEN {}
    ELSE {Strip(line) : line \in FileLines(fileContent)}

RECURSIVE JoinLines(_)
JoinLines(q) ==
    IF q = <<>> THEN <<>> ELSE Head(q) \o <<NL>> \o JoinLines(Tail(q))

\* a save that leaves the line ends out
save_sent_links_NoNewline(links_set) ==
    IF links_set = {} THEN <<>>
    ELSE LET q == sorted(links_set)
             cat[i \in 0..Len(q)] == IF i = 0 THEN <<>> ELSE cat[i - 1] \o q[i]
         IN  cat[Len(q)]

\* lines 27-29: the text save_sent_links writes
save_sent_links(links_set) == JoinLines(sorted(links_set))

\* get_pdf_links: the page's anchors, or set() when the fetch raised
get_pdf_links(fetchOk, page) ==
    IF fetchOk
    THEN {BASE_URL \o h : h \in {a \in page : EndsWith(a, <<".pdf">>)}}
    ELSE {}

Links == {BASE_URL \o h : h \in Hrefs}

\* a run that did nothing: the page it was shown (fetchOk, page), the branch
\* of main() it took, current_links and already_sent, the links download_pdf
\* was called for (tried), those send_email_with_attachment was called for
\* (emailed) and those whose email went out (sent)
NoRun ==
    [branch |-> "none", fetchOk |-> FALSE, page |-> {}, current |-> {},
     already |-> {}, tried |-> {}, emailed |-> {}, sent |-> {}]

WStart ==
    /\ fileContent = <<>>
    /\ runs = 0
    /\ last = NoRun
    /\ dlCount = [l \in Links |-> 0]
    /\ mailCount = [l \in Links |-> 0]

\* pdf_links.txt is absent, or there and empty
WInit == fileExists \in BOOLEAN /\ WStart

\* the watcher is not run
WOff == fileExists = FALSE /\ WStart

\* one more completed run of main(); fetch_pdfs is another program
Run ==
    /\ runs < MaxRuns
    /\ runs' = runs + 1
    /\ UNCHANGED fvars

\* main(), lines 81-84: nothing on the page
MainNoLinks ==
    \E fetchOk \in BOOLEAN, page \in SUBSET Hrefs :
      LET current_links == get_pdf_links(fetchOk, page)
      IN  /\ Run
          /\ current_links = {}
          /\ last' = [NoRun EXCEPT !.branch = "nolinks", !.fetchOk = fetchOk,
                                   !.page = page]
          /\ UNCHANGED <<fileExists, fileContent, dlCount, mailCount>>

\* main(), lines 81-92: first run
MainFirstRun ==
    \E fetchOk \in BOOLEAN, page \in SUBSET Hrefs :
      LET current_links == get_pdf_links(fetchOk, page)
      IN  /\ Run
          /\ current_links # {}
          /\ load_sent_links = {}
          /\ fileExists' = TRUE
          /\ fileContent' = save_sent_links(current_links)
          /\ last' = [NoRun EXCEPT !.branch = "first", !.fetchOk = fetchOk,
                                   !.page = page, !.current = current_links]
          /\ UNCHANGED <<dlCount, mailCount>>

\* main(), lines 81-97: nothing new
MainNoNew ==
    \E fetchOk \in BOOLEAN, page \in SUBSET Hrefs :
      LET current_links == get_pdf_links(fetchOk, page)
          already_sent == load_sent_links
      IN  /\ Run
          /\ current_links # {}
          /\ already_sent # {}
          /\ current_links \ already_sent = {}
          /\ last' = [NoRun EXCEPT !.branch = "nonew", !.fetchOk = fetchOk,
                                   !.page = page, !.current = current_links,
                                   !.already = already_sent]
          /\ UNCHANGED <<fileExists, fileContent, dlCount, mailCount>>

\* main(), lines 81-110: download and email each new link, then save.
\* dlOk: the links whose download_pdf returned a filename; mailOk: those of
\* them whose email went out.
MainSend ==
    \E fetchOk \in BOOLEAN, page \in SUBSET Hrefs :
      LET current_links == get_pdf_links(fetchOk, page)
          already_sent == load_sent_links
          new_links == current_links \ already_sent
      IN  \E dlOk \in SUBSET new_links :
            \E mailOk \in SUBSET dlOk :
              /\ Run
              /\ current_links # {}
              /\ already_sent # {}
              /\ new_links # {}
              /\ dlCount' = [l \in Links |->
                               IF l \in new_links THEN dlCount[l] + 1 ELSE dlCount[l]]
              /\ mailCount' = [l \in Links |->
                               IF l \in dlOk THEN mailCount[l] + 1 ELSE mailCount[l]]
              /\ fileExists' = TRUE
              /\ fileContent' = save_sent_links(already_sent \cup new_links)
              /\ last' = [branch |-> "send", fetchOk |-> fetchOk, page |-> page,
                          current |-> current_links,
                          already |-> already_sent, tried |-> new_links,
                          emailed |-> dlOk, sent |-> mailOk]

WNext ==
    \/ MainNoLinks
    \/ MainFirstRun
    \/ MainNoNew
    \/ MainSend

\* runs of the watcher
InitWatcher == WInit /\ FOff

SpecWatcher == InitWatcher /\ [][WNext]_vars

\* a run of fetch_pdfs
InitFetch == FInit /\ WOff

SpecFetch == InitFetch /\ [][FNext]_vars

(***************************************************************************)
(* The watcher's claims (under SpecWatcher)                                *)
(***************************************************************************)
\* the seen-links file as a whole
seenFile == <<fileExists, fileContent>>

\* the PDF links a page shows
Shown(fetchOk, page) ==
    IF fetchOk THEN {BASE_URL \o h : h \in {a \in page : a[Len(a)] = ".pdf"}} ELSE {}

\* text is exactly the links of S, one per line, in some order
OnePerLine(text, S) ==
    \E q \in Orderings(S) : text = JoinLines(q)

\* C4: on a run that is not the first one the links main() downloads are
\* exactly current - previous, and a run that is shown the same links as
\* the run before it downloads nothing, emails nothing and leaves the
\* seen-links file as it was.
C4_DiffIdempotent ==
    [][(runs >= 1 /\ runs' = runs + 1) =>
         /\ last'.already # {} => last'.tried = last'.current \ last'.already
         /\ Shown(last'.fetchOk, last'.page) = Shown(last.fetchOk, last.page) =>
              /\ last'.tried = {}
              /\ last'.emailed = {}
              /\ seenFile' = seenFile]_vars

\* C5: every link a sending run adds to the seen-links file was downloaded
\* and emailed in that run.
C5_RecordedWereSent ==
    last.branch = "send" =>
        \A l \in load_sent_links \ last.already : l \in last.sent

C9_SeenGrowsSentOnce ==
    /\ last.branch \in {"nonew", "send"} => last.already \subseteq load_sent_links
    /\ \A l \in Links : dlCount[l] <= 1 /\ mailCount[l] <= 1


(***************************************************************************)
(* fetch_pdfs' claims (under SpecFetch)                                    *)
(***************************************************************************)
Successes == {j \in DOMAIN results : results[j].status = "success"}

\* the file records of the results, as <<result, file>> positions
FileRecords ==
    UNION {{<<j, m>> : m \in DOMAIN Files(results[j])} : j \in DOMAIN results}

\* the operations of the log that belong to URL i, as positions
Ops(i, op) == {p \in DOMAIN log : log[p].i = i /\ log[p].op = op}

\* the URLs whose processing has begun
Begun == {i \in DOMAIN urls : i <= idx /\ (i < idx \/ stage # "idle")}

\* C1: the script exits 0 exactly when there is at least one result and the
\* successes are at least half of the results; an empty PDF_URLS exits 1
\* with nothing processed and nothing posted, and a PDF_URLS of separators
\* and blanks exits 1 with no result.
C1_ExitCode ==
    pc = "exited" =>
        /\ exitCode \in {0, 1}
        /\ exitCode = 0 <=>
             (Len(results) >= 1 /\ 2 * Cardinality(Successes) >= Len(results))
        /\ urls_str = <<>> => (exitCode = 1 /\ log = <<>> /\ posts = 0 /\ results = <<>>)
        /\ (\A p \in DOMAIN urls_str : urls_str[p] \in {COMMA, " "}) =>
             (exitCode = 1 /\ results = <<>>)

\* C1's case: exactly half of two results succeeded, and the exit code is 0
C1_Witness ==
    /\ pc = "exited"
    /\ Len(results) = 2
    /\ Cardinality(Successes) = 1
    /\ exitCode = 0

C3_OneRecordPerUrl ==
    /\ Len(results) = Cardinality({i \in Begun : i < idx})
    /\ pc \in {"sent", "exited"} /\ urls_str # <<>> =>
         Len(results) = Cardinality({p \in DOMAIN Split(urls_str, COMMA) :
                                        Strip(Split(urls_str, COMMA)[p]) # <<>>})
    /\ \A j \in DOMAIN results :
         LET r == results[j]
         IN  /\ r.url = urls[j]
             /\ r.status \in {"success", "failed", "error"}
             /\ r.status = "success" <=>
                  /\ "files" \in DOMAIN r
                  /\ r.files # <<>>
                  /\ \A m \in DOMAIN r.files : r.files[m].status = "success"
             /\ r.status # "success" =>
                  "error" \in DOMAIN r /\ "files" \notin DOMAIN r

\* C3's case: a scan that found links none of which could be downloaded, so
\* the record is a failed one
C3_Witness ==
    \E j \in DOMAIN results :
       /\ results[j].status = "failed"
       /\ Cardinality(Ops(j, "download")) >= 2

\* C6 as stated: a run with a webhook URL posts the summary exactly once.
C6_AlwaysOnePost ==
    (pc = "exited" /\ webhook_url # <<>>) => posts = 1

\* C6, amended: a run with a webhook URL and a non-empty PDF_URLS posts the
\* summary exactly once, after every URL has been processed; in the summary
\* processed_urls is the number of details, successful + failed =
\* processed_urls with neither negative, and total_pdfs is the number of
\* file records of the details; the outcome of the POST changes neither the
\* results nor the exit code.
C6_OnePostAfterAll ==
    /\ posts = Cardinality({p \in DOMAIN log : log[p].op = "post"})
    /\ posts <= 1
    /\ (pc = "exited" /\ webhook_url # <<>> /\ urls_str # <<>>) => posts = 1
    /\ posts = 1 =>
         /\ log[Len(log)].op = "post"
         /\ idx > Len(urls) /\ stage = "idle"
         /\ \A i \in DOMAIN urls : Ops(i, "render") # {}
         /\ payload.details = results
         /\ payload.processed_urls = Len(payload.details)
         /\ payload.successful >= 0 /\ payload.failed >= 0
         /\ payload.successful + payload.failed = payload.processed_urls
         /\ payload.successful = Cardinality(Successes)
         /\ payload.total_pdfs = Cardinality(FileRecords)
         /\ pc = "exited" =>
              (exitCode = 0 <=>
                 (Len(results) >= 1 /\ 2 * Cardinality(Successes) >= Len(results)))

\* C6's case: the POST failed after a run of two URLs, one of which gave two
\* files and the other none, and the script still exits 0
C6_Witness ==
    /\ pc = "exited"
    /\ posts = 1
    /\ ~log[Len(log)].ok
    /\ Len(results) = 2
    /\ \E j \in DOMAIN results : Len(Files(results[j])) = 2
    /\ \E j \in DOMAIN results : results[j].status # "success"
    /\ exitCode = 0

\* C7: per URL the browser renders exactly once; the page is scanned at
\* most once and only after the rendering failed; each link found is
\* downloaded at most once; after a rendering that succeeded there is no
\* scan and no download, and the result is one file record, made by the
\* browser.
C7_NoRetry ==
    \A i \in Begun :
       /\ Cardinality(Ops(i, "render")) = 1
       /\ Cardinality(Ops(i, "scan")) <= 1
       /\ \A p \in Ops(i, "scan") : \A r \in Ops(i, "render") : r < p /\ ~log[r].ok
       /\ \A p, q \in Ops(i, "download") : log[p].target = log[q].target => p = q
       /\ \A r \in Ops(i, "render") : log[r].ok =>
             /\ Ops(i, "scan") = {} /\ Ops(i, "download") = {}
             /\ i < idx
             /\ Len(results[i].files) = 1
             /\ results[i].files[1].method = "browser_generated"

\* C7's case: one URL rendered by the browser, another whose scan found two
\* links, both downloaded
C7_Witness ==
    /\ \E i \in Begun : \E r \in Ops(i, "render") : log[r].ok
    /\ \E i \in Begun : Cardinality(Ops(i, "download")) = 2 /\ i < idx

\* C10: every reported file is named pib_<id>.pdf or pib_<id>_<i>.pdf, any
\* two reported files of the run have different names, so that each name on
\* disk still holds what its record reports, and no reported file is a file
\* of an earlier run.
C10_NamesDoNotCollide ==
    LET Name(jm) == results[jm[1]].files[jm[2]].filename
    IN  /\ \A jm \in FileRecords :
             /\ \E suffix \in {<<>>} \cup {<<"_", IndexText(n)>> : n \in 0..5} :
                   Name(jm) = <<"pib_", PridOf(urls[jm[1]])>> \o suffix \o <<".pdf">>
             /\ Name(jm) \in DOMAIN fs
             /\ fs[Name(jm)][1] = jm[1]
        /\ \A a, b \in FileRecords : a # b => Name(a) # Name(b)

=============================================================================
